---- MODULE Spec2Model ----
(***************************************************************************)
(* DynamicSizePool<MA, IA> (src/DynamicSizePool.hpp): a variable-size      *)
(* sub-allocator that carves loans out of backing allocations and keeps    *)
(* them on a free chain and a used chain of Block descriptors.             *)
(*                                                                         *)
(* Block descriptors live in slots of the descriptor pool (blockPool); a   *)
(* Block* is a slot number, NULL is 0.  The heap of descriptors is the     *)
(* function blocks, whose domain is the set of slots currently handed out  *)
(* by blockPool, so that a read through a released descriptor is an        *)
(* evaluation error and not a silent value.  Addresses are integers.       *)
(***************************************************************************)
EXTENDS Integers, Sequences, FiniteSets, TLC

\* ---------------------------------------------------------------- constants

NULL == 0

\* Content of a field of a fresh descriptor slot that has not been written yet.
Uninit == -1

\* Default of the constructor parameter _minBytes (1 << 8).
DefaultMinBytes == 256

\* ------------------------------------------------------------------- bounds

\* Loans the callers hold at one time.
MaxLoans == 2

\* Request sizes the callers use.
Sizes == {64, 128, 320}

\* Base addresses the backing allocator may return: 256 apart, so that two
\* backing allocations of 256 bytes can be address-adjacent.
BaseAddrs == {256, 512}

\* The threads that call into one pool.
Threads == {1, 2}

\* Request sizes the threads use.
ThreadSizes == {64, 320}

Max(a, b) == IF a >= b THEN a ELSE b

\* -------------------------------------------------------------------- state

VARIABLES
    blocks,                   \* slot -> Block {data, size, isHead, next, prev}
    usedBlocks,               \* head of the used chain
    freeBlocks,               \* head of the free chain
    totalBytes,               \* bytes obtained from the backing allocator
    allocBytes,               \* bytes on loan
    minBytes,                 \* minimum size of a backing request
    allocatedAddressToBlock,  \* std::map<void*, Block*>
    backing,                  \* backing allocator MA: base -> size of its live allocations
    loans,                    \* the callers' pointers: returned by allocate, not yet passed to deallocate
    lastOp,                   \* the last completed call: its argument (size or ptr), its
                              \* result (ptr or ok), whether ptr was a loan, whether the
                              \* backing allocator was called, the descriptors before it
    threads,                  \* per thread: where it is in its call (pc), the call's size
                              \* or ptr, the data of the block the call registered (mine),
                              \* the pointer returned (ret), the pointers it holds (held)
    mutex,                    \* getMutex(): the thread that holds it, or NULL
    mem,                      \* memory: the addresses whose byte is not zero
    pool2,                    \* the fields of a second DynamicSizePool instance
    maFreed                   \* the pointers passed to MA::deallocate, in order

poolVars == <<blocks, usedBlocks, freeBlocks, totalBytes, allocBytes, minBytes,
              allocatedAddressToBlock, backing>>

vars == <<blocks, usedBlocks, freeBlocks, totalBytes, allocBytes, minBytes,
          allocatedAddressToBlock, backing, loans, lastOp, threads, mutex,
          mem, pool2, maFreed>>

\* The pool's fields as one record, the value the member functions work on.
Pool ==
    [blocks |-> blocks, usedBlocks |-> usedBlocks, freeBlocks |-> freeBlocks,
     totalBytes |-> totalBytes, allocBytes |-> allocBytes, minBytes |-> minBytes,
     map |-> allocatedAddressToBlock, backing |-> backing]

Install(S) ==
    /\ blocks' = S.blocks
    /\ usedBlocks' = S.usedBlocks
    /\ freeBlocks' = S.freeBlocks
    /\ totalBytes' = S.totalBytes
    /\ allocBytes' = S.allocBytes
    /\ minBytes' = S.minBytes
    /\ allocatedAddressToBlock' = S.map
    /\ backing' = S.backing

\* The fields after construction with _minBytes.
FreshPool(_minBytes) ==
    [blocks |-> <<>>, usedBlocks |-> NULL, freeBlocks |-> NULL,
     totalBytes |-> 0, allocBytes |-> 0, minBytes |-> _minBytes,
     map |-> <<>>, backing |-> <<>>]

\* The instances: 1 is the pool of the variables above, 2 is pool2.
PoolAt(i) == IF i = 1 THEN Pool ELSE pool2

InstallAt(i, S) ==
    IF i = 1 THEN Install(S) /\ pool2' = pool2
    ELSE pool2' = S /\ UNCHANGED poolVars

\* The live backing allocations of both instances (MA is one allocator).
AllBacking == backing @@ pool2.backing

\* ------------------------------------------------------------ collaborators

\* BlockPool::allocate(): a slot that is not handed out (the lowest one; the
\* descriptor pool grows on demand and does not run out).
blockPoolAllocate(b) ==
    CHOOSE s \in 1..(Cardinality(DOMAIN b) + 1) :
        s \notin DOMAIN b /\ \A t \in 1..(s - 1) : t \in DOMAIN b

\* BlockPool::deallocate(p): the slot is handed back.
blockPoolDeallocate(b, p) ==
    [s \in DOMAIN b \ {p} |-> b[s]]

\* MA::allocate(n): any base whose n bytes overlap no live backing allocation.
\* blockPool.totalSize(): the bytes the Descriptor Pool has reserved, counted
\* in descriptors.
blockPoolTotalSize(b) == Cardinality(DOMAIN b)

MAallocate(bk, n) ==
    {a \in BaseAddrs : \A c \in DOMAIN bk : a + n <= c \/ c + bk[c] <= a}

\* MA::deallocate(p): the allocation at p is no longer live.
MAdeallocate(bk, p) == [c \in DOMAIN bk \ {p} |-> bk[c]]

\* memset(p, 0, n) on the memory m.
\* No fill: the memory is left as the previous holder wrote it.
memsetNothing(m, p, n) == m

memsetZero(m, p, n) == m \ (p..(p + n - 1))

\* ------------------------------------------------------- block list manager

\* findUsableBlock stopping at the first block that is large enough.
RECURSIVE findLoopFirstFit(_, _, _, _, _, _)
findLoopFirstFit(b, iter, iterPrev, best, prev, size) ==
    IF iter = NULL THEN [best |-> best, prev |-> prev]
    ELSE IF b[iter].size >= size
         THEN [best |-> iter, prev |-> iterPrev]
         ELSE findLoopFirstFit(b, b[iter].next, iter, best, prev, size)

\* The loop of findUsableBlock: one pass over the free chain.
RECURSIVE findLoop(_, _, _, _, _, _)
findLoop(b, iter, iterPrev, best, prev, size) ==
    IF iter = NULL THEN [best |-> best, prev |-> prev]
    ELSE IF b[iter].size >= size /\ (best = NULL \/ b[iter].size < b[best].size)
         THEN findLoop(b, b[iter].next, iter, iter, iterPrev, size)
         ELSE findLoop(b, b[iter].next, iter, best, prev, size)

findUsableBlock(S, size) ==
    findLoop(S.blocks, S.freeBlocks, NULL, NULL, NULL, size)

\* The address scan not walking: the block goes to the head of the free chain.
scanLoopAtHead(b, temp, prev, data) ==
    [prev |-> NULL, next |-> temp]

\* The address scan of allocateBlock and releaseBlock: walks the free chain
\* while temp->data < data; prev is the last block passed, next the stop.
RECURSIVE scanLoop(_, _, _, _)
scanLoop(b, temp, prev, data) ==
    IF temp # NULL /\ b[temp].data < data
    THEN scanLoop(b, b[temp].next, temp, data)
    ELSE [prev |-> prev, next |-> temp]

\* allocateBlock counting the requested size, not sizeToAlloc, in totalBytes.
allocateBlockCountsRequest(S, size, data) ==
    LET sizeToAlloc == Max(size, S.minBytes)
        sc == scanLoop(S.blocks, S.freeBlocks, NULL, data)
        curr == blockPoolAllocate(S.blocks)
        rec == [data |-> data, size |-> sizeToAlloc, isHead |-> TRUE,
                next |-> sc.next, prev |-> sc.prev]
        b1 == S.blocks @@ (curr :> rec)
        b2 == IF sc.next # NULL THEN [b1 EXCEPT ![sc.next].prev = curr] ELSE b1
        b3 == IF sc.prev # NULL THEN [b2 EXCEPT ![sc.prev].next = curr] ELSE b2
    IN  [st |-> [S EXCEPT !.backing = data :> sizeToAlloc @@ @,
                          !.totalBytes = @ + size,
                          !.blocks = b3,
                          !.freeBlocks = IF sc.prev # NULL THEN @ ELSE curr],
         curr |-> curr, prev |-> sc.prev]

\* The request to MA for size bytes, without the minimum.
allocateBlockRequestsSize(S, size, data) ==
    LET sizeToAlloc == size
        sc == scanLoop(S.blocks, S.freeBlocks, NULL, data)
        prev == sc.prev
        next == sc.next
        curr == blockPoolAllocate(S.blocks)
        rec == [data |-> data, size |-> sizeToAlloc, isHead |-> TRUE,
                next |-> next, prev |-> Uninit]
        b1 == S.blocks @@ (curr :> rec)
        b2 == IF next # NULL THEN [b1 EXCEPT ![next].prev = curr] ELSE b1
        b3 == IF prev # NULL
              THEN [b2 EXCEPT ![prev].next = curr, ![curr].prev = prev]
              ELSE [b2 EXCEPT ![curr].prev = NULL]
    IN  [st |-> [S EXCEPT !.backing = data :> sizeToAlloc @@ @,
                          !.totalBytes = @ + sizeToAlloc,
                          !.blocks = b3,
                          !.freeBlocks = IF prev # NULL THEN @ ELSE curr],
         curr |-> curr, prev |-> prev]

\* allocateBlock(curr, prev, size), data being what MA::allocate returned.
allocateBlock(S, size, data) ==
    LET sizeToAlloc == Max(size, S.minBytes)
        sc == scanLoop(S.blocks, S.freeBlocks, NULL, data)
        prev == sc.prev
        next == sc.next
        curr == blockPoolAllocate(S.blocks)
        rec == [data |-> data, size |-> sizeToAlloc, isHead |-> TRUE,
                next |-> next, prev |-> Uninit]
        b1 == S.blocks @@ (curr :> rec)
        b2 == IF next # NULL THEN [b1 EXCEPT ![next].prev = curr] ELSE b1
        b3 == IF prev # NULL
              THEN [b2 EXCEPT ![prev].next = curr, ![curr].prev = prev]
              ELSE [b2 EXCEPT ![curr].prev = NULL]
    IN  [st |-> [S EXCEPT !.backing = data :> sizeToAlloc @@ @,
                          !.totalBytes = @ + sizeToAlloc,
                          !.blocks = b3,
                          !.freeBlocks = IF prev # NULL THEN @ ELSE curr],
         curr |-> curr, prev |-> prev]

\* The tail of splitBlock: next takes curr's place in the free chain.
splitRelink(S, b, prev, next) ==
    IF prev # NULL
    THEN LET b1 == [b EXCEPT ![prev].next = next]
         IN  [S EXCEPT !.blocks = IF next # NULL THEN [b1 EXCEPT ![next].prev = prev] ELSE b1]
    ELSE [S EXCEPT !.freeBlocks = next,
                   !.blocks = IF next # NULL THEN [b EXCEPT ![next].prev = NULL] ELSE b]

\* The split without curr->size = size: curr keeps the size it had.
splitBlockKeepsSize(S, curr, prev, size) ==
    LET b == S.blocks IN
    IF b[curr].size = size
    THEN splitRelink(S, b, prev, b[curr].next)
    ELSE LET remaining == b[curr].size - size
             newBlock == blockPoolAllocate(b)
             rec == [data |-> b[curr].data + size, size |-> remaining, isHead |-> FALSE,
                     next |-> b[curr].next, prev |-> Uninit]
             b1 == b @@ (newBlock :> rec)
             b2 == IF rec.next # NULL THEN [b1 EXCEPT ![rec.next].prev = newBlock] ELSE b1
         IN  splitRelink(S, b2, prev, newBlock)

\* The remainder placed at curr's own address instead of size bytes after it.
splitBlockRemainderAtStart(S, curr, prev, size) ==
    LET b == S.blocks IN
    IF b[curr].size = size
    THEN splitRelink(S, b, prev, b[curr].next)
    ELSE LET remaining == b[curr].size - size
             newBlock == blockPoolAllocate(b)
             rec == [data |-> b[curr].data, size |-> remaining, isHead |-> FALSE,
                     next |-> b[curr].next, prev |-> Uninit]
             b1 == b @@ (newBlock :> rec)
             b2 == IF rec.next # NULL THEN [b1 EXCEPT ![rec.next].prev = newBlock] ELSE b1
             b3 == [b2 EXCEPT ![curr].size = size]
         IN  splitRelink(S, b3, prev, newBlock)

\* splitBlock(curr, prev, size)
splitBlock(S, curr, prev, size) ==
    LET b == S.blocks IN
    IF b[curr].size = size
    THEN splitRelink(S, b, prev, b[curr].next)
    ELSE LET remaining == b[curr].size - size
             newBlock == blockPoolAllocate(b)
             rec == [data |-> b[curr].data + size, size |-> remaining, isHead |-> FALSE,
                     next |-> b[curr].next, prev |-> Uninit]
             b1 == b @@ (newBlock :> rec)
             b2 == IF rec.next # NULL THEN [b1 EXCEPT ![rec.next].prev = newBlock] ELSE b1
             b3 == [b2 EXCEPT ![curr].size = size]
         IN  splitRelink(S, b3, prev, newBlock)

\* The unlinking taking curr for the head of the used chain whatever prev is.
releaseUnlinkAsHead(S, curr, prev) ==
    LET u == S.blocks[curr].next
    IN  [S EXCEPT !.usedBlocks = u,
                  !.blocks = IF u # NULL THEN [S.blocks EXCEPT ![u].prev = NULL] ELSE S.blocks]

\* releaseBlock, first part: curr is cut out of the used chain.
releaseUnlink(S, curr, prev) ==
    LET b == S.blocks IN
    IF prev # NULL
    THEN LET b1 == [b EXCEPT ![prev].next = b[curr].next]
             n == b1[prev].next
         IN  [S EXCEPT !.blocks = IF n # NULL THEN [b1 EXCEPT ![n].prev = prev] ELSE b1]
    ELSE LET u == b[curr].next
         IN  [S EXCEPT !.usedBlocks = u,
                       !.blocks = IF u # NULL THEN [b EXCEPT ![u].prev = NULL] ELSE b]

\* The merge with the predecessor without the test of curr->isHead.
releaseMergePrevAcrossHead(S, curr, prev, next) ==
    LET b == S.blocks IN
    IF prev # NULL /\ b[prev].data + b[prev].size = b[curr].data
    THEN LET b1 == [b EXCEPT ![prev].size = b[prev].size + b[curr].size]
             b2 == blockPoolDeallocate(b1, curr)
             b3 == [b2 EXCEPT ![prev].next = next]
             b4 == IF next # NULL THEN [b3 EXCEPT ![next].prev = prev] ELSE b3
         IN  [st |-> [S EXCEPT !.blocks = b4], curr |-> prev]
    ELSE IF prev # NULL
    THEN [st |-> [S EXCEPT !.blocks = [b EXCEPT ![prev].next = curr, ![curr].prev = prev]],
          curr |-> curr]
    ELSE [st |-> [S EXCEPT !.freeBlocks = curr, !.blocks = [b EXCEPT ![curr].prev = NULL]],
          curr |-> curr]

\* releaseBlock, the merge with the predecessor prev in the free chain (or the
\* insertion after it); yields the pool and the block curr now stands for.
releaseMergePrev(S, curr, prev, next) ==
    LET b == S.blocks IN
    IF prev # NULL /\ b[prev].data + b[prev].size = b[curr].data /\ ~b[curr].isHead
    THEN LET b1 == [b EXCEPT ![prev].size = b[prev].size + b[curr].size]
             b2 == blockPoolDeallocate(b1, curr)
             b3 == [b2 EXCEPT ![prev].next = next]
             b4 == IF next # NULL THEN [b3 EXCEPT ![next].prev = prev] ELSE b3
         IN  [st |-> [S EXCEPT !.blocks = b4], curr |-> prev]
    ELSE IF prev # NULL
    THEN [st |-> [S EXCEPT !.blocks = [b EXCEPT ![prev].next = curr, ![curr].prev = prev]],
          curr |-> curr]
    ELSE [st |-> [S EXCEPT !.freeBlocks = curr, !.blocks = [b EXCEPT ![curr].prev = NULL]],
          curr |-> curr]

\* The successor never merged: curr is only linked in front of next.
releaseNoMergeNext(S, curr, next) ==
    LET b1 == [S.blocks EXCEPT ![curr].next = next]
    IN  [S EXCEPT !.blocks = IF next # NULL THEN [b1 EXCEPT ![next].prev = curr] ELSE b1]

\* releaseBlock, the merge with the successor next in the free chain.
releaseMergeNext(S, curr, next) ==
    LET b == S.blocks IN
    IF next # NULL /\ b[curr].data + b[curr].size = b[next].data /\ ~b[next].isHead
    THEN LET b1 == [b EXCEPT ![curr].size = b[curr].size + b[next].size,
                             ![curr].next = b[next].next]
             n == b1[curr].next
             b2 == IF n # NULL THEN [b1 EXCEPT ![n].prev = curr] ELSE b1
         IN  [S EXCEPT !.blocks = blockPoolDeallocate(b2, next)]
    ELSE LET b1 == [b EXCEPT ![curr].next = next]
         IN  [S EXCEPT !.blocks = IF next # NULL THEN [b1 EXCEPT ![next].prev = curr] ELSE b1]

\* releaseBlock(curr, prev)
releaseBlock(S, curr, prev0) ==
    LET S1 == releaseUnlink(S, curr, prev0)
        prev == scanLoop(S1.blocks, S1.freeBlocks, NULL, S1.blocks[curr].data).prev
        next == IF prev # NULL THEN S1.blocks[prev].next ELSE S1.freeBlocks
    IN  CHOOSE r \in {releaseMergeNext(m.st, m.curr, next) :
                         m \in {releaseMergePrev(S1, curr, prev, next)}} : TRUE

\* One release instead of the loop over the used chain.
releaseUsedOnce(S) ==
    IF S.usedBlocks = NULL THEN S ELSE releaseBlock(S, S.usedBlocks, NULL)

\* freeAllBlocks, first loop: release the head of the used chain until the
\* chain is empty.
RECURSIVE releaseUsed(_)
releaseUsed(S) ==
    IF S.usedBlocks = NULL THEN S
    ELSE releaseUsed(releaseBlock(S, S.usedBlocks, NULL))

\* freeAllBlocks, second loop: hand the data of each free block to
\* MA::deallocate and release its descriptor. freed lists the pointers handed
\* over; ok is FALSE when assert(freeBlocks->isHead) fails, which ends the run.
RECURSIVE releaseFree(_, _)
releaseFree(S, freed) ==
    IF S.freeBlocks = NULL THEN [st |-> S, freed |-> freed, ok |-> TRUE]
    ELSE LET curr == S.freeBlocks
             b == S.blocks[curr]
         IN  IF ~b.isHead THEN [st |-> S, freed |-> freed, ok |-> FALSE]
             ELSE releaseFree([S EXCEPT !.backing = MAdeallocate(@, b.data),
                                        !.totalBytes = @ - b.size,
                                        !.freeBlocks = b.next,
                                        !.blocks = blockPoolDeallocate(@, curr)],
                              Append(freed, b.data))

freeAllBlocks(S) == releaseFree(releaseUsed(S), <<>>)

\* -------------------------------------------------------------- pool facade

\* std::map::insert: an existing key keeps its value.
mapInsert(m, k, v) == IF k \in DOMAIN m THEN m ELSE (k :> v) @@ m

\* An erase that leaves the entry in the index.
mapEraseKeeps(m, k) == m

mapErase(m, k) == [x \in DOMAIN m \ {k} |-> m[x]]

\* Without the test for size 0: a request for 0 bytes stays 0.
normalizeKeepsZero(size) == size

normalize(size) == IF size = 0 THEN 1 ELSE size

\* allocate, from the search to the push onto the used chain; data is what
\* MA::allocate returns if it is called.
\* The push without usedBlocks->prev = best: the old head keeps its prev.
allocatePushNoBackLink(S, size, data) ==
    LET f == findUsableBlock(S, size)
        a == IF f.best = NULL
             THEN allocateBlock(S, size, data)
             ELSE [st |-> S, curr |-> f.best, prev |-> f.prev]
        best == a.curr
        S2 == splitBlock(a.st, best, a.prev, size)
        b1 == [S2.blocks EXCEPT ![best].next = S2.usedBlocks]
        b3 == [b1 EXCEPT ![best].prev = NULL]
    IN  [S2 EXCEPT !.blocks = b3, !.usedBlocks = best]

allocatePush(S, size, data) ==
    LET f == findUsableBlock(S, size)
        a == IF f.best = NULL
             THEN allocateBlock(S, size, data)
             ELSE [st |-> S, curr |-> f.best, prev |-> f.prev]
        best == a.curr
        S2 == splitBlock(a.st, best, a.prev, size)
        b1 == [S2.blocks EXCEPT ![best].next = S2.usedBlocks]
        b2 == IF S2.usedBlocks # NULL THEN [b1 EXCEPT ![S2.usedBlocks].prev = best] ELSE b1
        b3 == [b2 EXCEPT ![best].prev = NULL]
    IN  [S2 EXCEPT !.blocks = b3, !.usedBlocks = best]

\* allocate, from the byte count to the registration in the address index.
allocateRegister(S, size) ==
    [S EXCEPT !.allocBytes = @ + size,
              !.map = mapInsert(@, S.blocks[S.usedBlocks].data, S.usedBlocks)]

\* allocate(size) run by one thread alone: the pool afterwards and the pointer.
allocate(S, size0, data) ==
    LET size == normalize(size0)
        S3 == allocateRegister(allocatePush(S, size, data), size)
    IN  [st |-> S3, ret |-> S3.blocks[S3.usedBlocks].data]

\* deallocate without the subtraction from allocBytes.
deallocateTrackedKeepsBytes(S, ptr) ==
    LET curr == S.map[ptr]
        S1 == [S EXCEPT !.map = mapErase(@, ptr)]
    IN  releaseBlock(S1, curr, S1.blocks[curr].prev)

\* deallocate(ptr) for a pointer the address index knows.
deallocateTracked(S, ptr) ==
    LET curr == S.map[ptr]
        S1 == [S EXCEPT !.map = mapErase(@, ptr),
                        !.allocBytes = @ - S.blocks[curr].size]
    IN  releaseBlock(S1, curr, S1.blocks[curr].prev)

\* deallocate taking the head of the used chain when the index has no entry.
deallocateUnknownTakesHead(S, ptr) ==
    IF ptr \in DOMAIN S.map
    THEN [st |-> deallocateTracked(S, ptr), ret |-> TRUE]
    ELSE IF S.usedBlocks = NULL
    THEN [st |-> S, ret |-> FALSE]
    ELSE [st |-> deallocateTracked(S, S.blocks[S.usedBlocks].data), ret |-> TRUE]

\* deallocate(ptr): the pool afterwards and the result.
deallocate(S, ptr) ==
    IF ptr \notin DOMAIN S.map
    THEN [st |-> S, ret |-> FALSE]
    ELSE [st |-> deallocateTracked(S, ptr), ret |-> TRUE]

\* ------------------------------------------------------------ stat queries

RECURSIVE Chain(_, _, _)
Chain(b, head, fuel) ==
    IF head = NULL \/ fuel = 0 THEN <<>>
    ELSE <<head>> \o Chain(b, b[head].next, fuel - 1)

\* The free and the used chain as the stat queries walk them.
FreeSeq == Chain(blocks, freeBlocks, Cardinality(DOMAIN blocks) + 1)
UsedSeq == Chain(blocks, usedBlocks, Cardinality(DOMAIN blocks) + 1)

numFreeBlocks == Len(FreeSeq)
numUsedBlocks == Len(UsedSeq)
allocatedSize == allocBytes
managedSize == totalBytes

\* Sums over a chain and over the backing allocations.
RECURSIVE SumSizes(_, _)
SumSizes(b, seq) ==
    IF seq = <<>> THEN 0 ELSE b[Head(seq)].size + SumSizes(b, Tail(seq))

RECURSIVE SumBacking(_, _)
SumBacking(bk, bases) ==
    IF bases = {} THEN 0
    ELSE LET c == CHOOSE x \in bases : TRUE IN bk[c] + SumBacking(bk, bases \ {c})

\* ------------------------------------------------------------------ actions

Init ==
    /\ blocks = <<>>
    /\ usedBlocks = NULL
    /\ freeBlocks = NULL
    /\ totalBytes = 0
    /\ allocBytes = 0
    /\ minBytes = DefaultMinBytes
    /\ allocatedAddressToBlock = <<>>
    /\ backing = <<>>
    /\ loans = {}
    /\ lastOp = [op |-> "none", size |-> 0, ptr |-> NULL, ok |-> TRUE, loaned |-> FALSE,
                 backed |-> FALSE, nblocks |-> 0, dirty |-> FALSE]
    /\ threads = [t \in Threads |->
                    [pc |-> "idle", inst |-> 1, size |-> 0, ptr |-> NULL, mine |-> NULL,
                     ret |-> NULL, held |-> {}, stat |-> "none", seen |-> 0, sum |-> 0,
                     busy |-> FALSE]]
    /\ mutex = NULL
    /\ mem = {}
    /\ pool2 = FreshPool(DefaultMinBytes)
    /\ maFreed = <<>>

\* A caller calls allocate(size) and the call returns.
Allocate(size) ==
    \E S \in {Pool} :
    LET n == normalize(size)
        miss == findUsableBlock(S, n).best = NULL
    IN  /\ Cardinality(loans) < MaxLoans
        /\ \E data \in (IF miss THEN MAallocate(backing, Max(n, minBytes)) ELSE {NULL}) :
              \E r \in {allocate(S, size, data)} :
                  /\ Install(r.st)
                  /\ loans' = loans \cup {r.ret}
                  /\ lastOp' = [op |-> "allocate", size |-> size, ptr |-> r.ret, ok |-> TRUE,
                                loaned |-> FALSE, backed |-> miss,
                                nblocks |-> Cardinality(DOMAIN blocks),
                                dirty |-> mem \cap (r.ret..(r.ret + n - 1)) # {}]
                  /\ mem' = memsetZero(mem, r.ret, r.st.blocks[r.st.usedBlocks].size)
                  /\ UNCHANGED <<threads, mutex, pool2, maFreed>>

\* Pointers a caller may pass to deallocate: its loans, the address of a free
\* block, an interior address of a loan, and the pointer it has just passed.
DeallocArgs ==
    loans
        \cup (IF freeBlocks # NULL THEN {blocks[freeBlocks].data} ELSE {})
        \cup (IF usedBlocks # NULL THEN {blocks[usedBlocks].data + 1} ELSE {})
        \cup (IF lastOp.op = "deallocate" THEN {lastOp.ptr} ELSE {})

\* A caller calls deallocate(ptr) and the call returns.
Deallocate(ptr) ==
    \E S \in {Pool} : \E r \in {deallocate(S, ptr)} :
        /\ Install(r.st)
        /\ loans' = loans \ {ptr}
        /\ lastOp' = [op |-> "deallocate", size |-> 0, ptr |-> ptr, ok |-> r.ret,
                      loaned |-> ptr \in loans, backed |-> FALSE,
                      nblocks |-> Cardinality(DOMAIN blocks), dirty |-> FALSE]
        /\ UNCHANGED <<threads, mutex, mem, pool2, maFreed>>

Next ==
    \/ \E size \in Sizes : Allocate(size)
    \/ \E ptr \in DeallocArgs : Deallocate(ptr)

Spec == Init /\ [][Next]_vars

\* ------------------------------------------- a caller that also asks for 0

\* Request sizes that include 0, 1, and the rest of a default chunk after 1.
ZeroSizes == {0, 1, 255}

NextZero ==
    \/ \E size \in ZeroSizes : Allocate(size)
    \/ \E ptr \in DeallocArgs : Deallocate(ptr)

SpecZero == Init /\ [][NextZero]_vars

\* ------------------------------------------------ a pool that is destroyed

\* ~DynamicSizePool(): freeAllBlocks, whatever the caller still holds.
Destroy ==
    \E S \in {Pool} : \E r \in {freeAllBlocks(S)} :
        /\ Install(r.st)
        /\ maFreed' = maFreed \o r.freed
        /\ lastOp' = [op |-> "destroy", size |-> 0, ptr |-> NULL, ok |-> r.ok,
                      loaned |-> loans # {}, backed |-> FALSE,
                      nblocks |-> Cardinality(DOMAIN blocks), dirty |-> FALSE]
        /\ UNCHANGED <<loans, threads, mutex, mem, pool2>>

\* No call is made on a destroyed pool.
NextTeardown ==
    /\ lastOp.op # "destroy"
    /\ \/ \E size \in Sizes : Allocate(size)
       \/ \E ptr \in DeallocArgs : Deallocate(ptr)
       \/ Destroy

SpecTeardown == Init /\ [][NextTeardown]_vars

\* ---------------------------------------- a caller that writes to its loans

\* The bytes of the loan at p: the size of the used block registered for p.
LoanBytes(p) ==
    LET s == allocatedAddressToBlock[p]
    IN  blocks[s].data..(blocks[s].data + blocks[s].size - 1)

\* The caller stores non-zero bytes into all of a loan.
Write(p) ==
    /\ mem' = mem \cup LoanBytes(p)
    /\ lastOp' = [op |-> "write", size |-> 0, ptr |-> p, ok |-> TRUE, loaned |-> TRUE,
                  backed |-> FALSE, nblocks |-> Cardinality(DOMAIN blocks),
                  dirty |-> TRUE]
    /\ UNCHANGED <<poolVars, loans, threads, mutex, pool2, maFreed>>

\* Request sizes of the writing caller: a loan of 256 is issued again as two
\* of 128 (split), two of 128 merge and are issued again as one of 256.
FillSizes == {128, 256}

NextFill ==
    \/ \E size \in FillSizes : Allocate(size)
    \/ \E ptr \in DeallocArgs : Deallocate(ptr)
    \/ \E p \in loans : Write(p)

SpecFill == Init /\ [][NextFill]_vars

\* ------------------------------------------------- threads sharing one pool

\* Thread t calls allocate(size): the size is normalized before the lock.
CallAllocate(t, size) ==
    /\ threads[t].pc = "idle"
    /\ Cardinality(DOMAIN allocatedAddressToBlock)
          + Cardinality({u \in Threads : threads[u].pc \in {"alloc_lock", "alloc_push", "alloc_register"}})
          < MaxLoans
    /\ threads' = [threads EXCEPT ![t].pc = "alloc_lock", ![t].size = normalize(size),
                                  ![t].mine = NULL, ![t].ret = NULL]
    /\ UNCHANGED <<poolVars, loans, lastOp, mutex, mem, pool2, maFreed>>

\* getMutex().lock() in allocate.
AllocLock(t) ==
    /\ threads[t].pc = "alloc_lock"
    /\ mutex = NULL
    /\ mutex' = t
    /\ threads' = [threads EXCEPT ![t].pc = "alloc_push"]
    /\ UNCHANGED <<poolVars, loans, lastOp, mem, pool2, maFreed>>

\* allocate under the lock, from findUsableBlock to the push onto the used chain.
AllocPush(t) ==
    /\ threads[t].pc = "alloc_push"
    /\ \E S \in {PoolAt(threads[t].inst)} :
          LET size == threads[t].size
              miss == findUsableBlock(S, size).best = NULL
          IN  \E data \in (IF miss THEN MAallocate(AllBacking, Max(size, S.minBytes))
                                   ELSE {NULL}) :
                 \E S2 \in {allocatePush(S, size, data)} : InstallAt(threads[t].inst, S2)
    /\ threads' = [threads EXCEPT ![t].pc = "alloc_register"]
    /\ UNCHANGED <<loans, lastOp, mutex, mem, maFreed>>

\* allocate under the lock, from the byte count over the registration and the
\* memset to getMutex().unlock().
AllocRegister(t) ==
    /\ threads[t].pc = "alloc_register"
    /\ LET S == PoolAt(threads[t].inst)
           u == S.blocks[S.usedBlocks]
       IN  /\ \E S2 \in {allocateRegister(S, threads[t].size)} :
                  InstallAt(threads[t].inst, S2)
           /\ threads' = [threads EXCEPT ![t].pc = "alloc_return", ![t].mine = u.data]
           /\ mem' = memsetZero(mem, u.data, u.size)
    /\ mutex' = NULL
    /\ UNCHANGED <<loans, lastOp, maFreed>>

\* return usedBlocks->data, after the unlock: the read of usedBlocks races
\* with the other threads' writes under the lock, so it yields the value
\* usedBlocks has now or the one it had when the lock was released.
AllocReturn(t) ==
    /\ threads[t].pc = "alloc_return"
    /\ LET S == PoolAt(threads[t].inst)
       IN  \E p \in {S.blocks[S.usedBlocks].data, threads[t].mine} :
              threads' = [threads EXCEPT ![t].pc = "idle", ![t].ret = p,
                                            ![t].held = @ \cup {p}]
    /\ UNCHANGED <<poolVars, loans, lastOp, mutex, mem, pool2, maFreed>>

\* Thread t calls deallocate(ptr) with a pointer it holds.
CallDeallocate(t, ptr) ==
    /\ threads[t].pc = "idle"
    /\ ptr \in threads[t].held
    /\ threads' = [threads EXCEPT ![t].pc = "dealloc_lock", ![t].ptr = ptr,
                                  ![t].held = @ \ {ptr}]
    /\ UNCHANGED <<poolVars, loans, lastOp, mutex, mem, pool2, maFreed>>

\* getMutex().lock() in deallocate.
DeallocLock(t) ==
    /\ threads[t].pc = "dealloc_lock"
    /\ mutex = NULL
    /\ mutex' = t
    /\ threads' = [threads EXCEPT ![t].pc = "dealloc_body"]
    /\ UNCHANGED <<poolVars, loans, lastOp, mem, pool2, maFreed>>

\* The unknown-pointer path returning without getMutex().unlock().
DeallocBodyKeepsLock(t) ==
    /\ threads[t].pc = "dealloc_body"
    /\ \E S \in {PoolAt(threads[t].inst)} : \E r \in {deallocate(S, threads[t].ptr)} :
           /\ InstallAt(threads[t].inst, r.st)
           /\ threads' = [threads EXCEPT ![t].pc = "idle"]
           /\ mutex' = IF r.ret THEN NULL ELSE mutex
    /\ UNCHANGED <<loans, lastOp, mem, maFreed>>

\* deallocate under the lock, to getMutex().unlock() and the return.
DeallocBody(t) ==
    /\ threads[t].pc = "dealloc_body"
    /\ \E S \in {PoolAt(threads[t].inst)} : \E r \in {deallocate(S, threads[t].ptr)} :
           /\ InstallAt(threads[t].inst, r.st)
           /\ threads' = [threads EXCEPT ![t].pc = "idle"]
    /\ mutex' = NULL
    /\ UNCHANGED <<loans, lastOp, mem, maFreed>>

NextMT ==
    \E t \in Threads :
        \/ \E size \in ThreadSizes : CallAllocate(t, size)
        \/ AllocLock(t)
        \/ AllocPush(t)
        \/ AllocRegister(t)
        \/ AllocReturn(t)
        \/ \E ptr \in threads[t].held : CallDeallocate(t, ptr)
        \/ DeallocLock(t)
        \/ DeallocBody(t)

SpecMT == Init /\ [][NextMT]_vars

\* ------------------------------------------------ threads asking for stats

\* What each stat query computes from the fields of S.
StatValue(q, S) ==
    CASE q = "allocatedSize" -> S.allocBytes
      [] q = "managedSize"   -> S.totalBytes
      [] q = "totalSize"     -> S.totalBytes + blockPoolTotalSize(S.blocks)
      [] q = "numFreeBlocks" -> Len(Chain(S.blocks, S.freeBlocks, Cardinality(DOMAIN S.blocks)))

\* What the query would return between critical sections: the bytes on loan
\* are the sizes of the used chain, the bytes reserved are the chunks.
StatSettled(q, S) ==
    CASE q = "allocatedSize" ->
            SumSizes(S.blocks, Chain(S.blocks, S.usedBlocks, Cardinality(DOMAIN S.blocks)))
      [] q = "managedSize"   -> SumBacking(S.backing, DOMAIN S.backing)
      [] OTHER               -> StatValue(q, S)

\* allocatedSize() and managedSize(): the field is read and returned; no lock
\* is taken, so the read can fall inside another thread's critical section.
UnlockedStats == {"allocatedSize", "managedSize"}

StatRead(t, q) ==
    /\ threads[t].pc = "idle"
    /\ LET S == PoolAt(threads[t].inst)
       IN  threads' = [threads EXCEPT ![t].pc = "stat_return", ![t].stat = q,
                                     ![t].seen = StatValue(q, S),
                                     ![t].sum = StatSettled(q, S),
                                     ![t].busy = mutex # NULL]
    /\ UNCHANGED <<poolVars, loans, lastOp, mutex, mem, pool2, maFreed>>

\* totalSize() and numFreeBlocks(): lock, compute, unlock, return.
LockedStats == {"totalSize", "numFreeBlocks"}

CallStat(t, q) ==
    /\ threads[t].pc = "idle"
    /\ threads' = [threads EXCEPT ![t].pc = "stat_lock", ![t].stat = q]
    /\ UNCHANGED <<poolVars, loans, lastOp, mutex, mem, pool2, maFreed>>

\* getMutex().lock() in totalSize and numFreeBlocks.
StatLock(t) ==
    /\ threads[t].pc = "stat_lock"
    /\ mutex = NULL
    /\ mutex' = t
    /\ threads' = [threads EXCEPT ![t].pc = "stat_body"]
    /\ UNCHANGED <<poolVars, loans, lastOp, mem, pool2, maFreed>>

\* The computation under the lock and getMutex().unlock().
StatBody(t) ==
    /\ threads[t].pc = "stat_body"
    /\ LET S == PoolAt(threads[t].inst)
           q == threads[t].stat
       IN  threads' = [threads EXCEPT ![t].pc = "stat_return",
                                     ![t].seen = StatValue(q, S),
                                     ![t].sum = StatSettled(q, S),
                                     ![t].busy = mutex # t]
    /\ mutex' = NULL
    /\ UNCHANGED <<poolVars, loans, lastOp, mem, pool2, maFreed>>

\* The query returns its value to the caller.
StatReturn(t) ==
    /\ threads[t].pc = "stat_return"
    /\ threads' = [threads EXCEPT ![t].pc = "idle", ![t].stat = "none", ![t].seen = 0,
                                  ![t].sum = 0, ![t].busy = FALSE]
    /\ UNCHANGED <<poolVars, loans, lastOp, mutex, mem, pool2, maFreed>>

\* Request size of the threads that also ask for stats.
StatSizes == {64}

NextStat ==
    \E t \in Threads :
          \/ \E size \in StatSizes : CallAllocate(t, size)
          \/ AllocLock(t)
          \/ AllocPush(t)
          \/ AllocRegister(t)
          \/ AllocReturn(t)
          \/ \E ptr \in threads[t].held : CallDeallocate(t, ptr)
          \/ DeallocLock(t)
          \/ DeallocBody(t)
          \/ \E q \in UnlockedStats : StatRead(t, q)
          \/ \E q \in LockedStats : CallStat(t, q)
          \/ StatLock(t)
          \/ StatBody(t)
          \/ StatReturn(t)

SpecStat == Init /\ [][NextStat]_vars

\* ------------------------------------------------ threads scheduled fairly

\* A step of thread t that it takes on its own: none waits for another thread.
Run(t) ==
    \/ AllocPush(t) \/ AllocRegister(t) \/ AllocReturn(t)
    \/ DeallocBody(t)
    \/ StatBody(t) \/ StatReturn(t)

\* getMutex().lock(): possible whenever no thread holds the mutex.
Lock(t) == AllocLock(t) \/ DeallocLock(t) \/ StatLock(t)

NextLive ==
    \E t \in Threads :
        \/ \E size \in StatSizes : CallAllocate(t, size)
        \/ \E ptr \in threads[t].held : CallDeallocate(t, ptr)
        \/ \E q \in LockedStats : CallStat(t, q)
        \/ Lock(t)
        \/ Run(t)

\* Fair scheduling: a thread that can run does run, and a thread waiting for
\* the mutex gets it if the mutex is free again and again.
SpecLive ==
    /\ Init
    /\ [][NextLive]_vars
    /\ \A t \in Threads : WF_vars(Run(t)) /\ SF_vars(Lock(t))

\* ------------------------------------------- threads on two pool instances

\* Thread t calls allocate(size) on instance i.
CallAllocateOn(t, i, size) ==
    /\ threads[t].pc = "idle"
    /\ Cardinality(DOMAIN PoolAt(i).map)
          + Cardinality({u \in Threads : threads[u].inst = i /\
                           threads[u].pc \in {"alloc_lock", "alloc_push", "alloc_register"}})
          < MaxLoans
    /\ threads' = [threads EXCEPT ![t].pc = "alloc_lock", ![t].inst = i,
                                  ![t].size = normalize(size),
                                  ![t].mine = NULL, ![t].ret = NULL]
    /\ UNCHANGED <<poolVars, loans, lastOp, mutex, mem, pool2, maFreed>>

\* Request size of the threads on two instances.
TwoSizes == {64}

\* Thread t works on instance t; getMutex() is the same mutex for both.
NextTwo ==
    \E t \in Threads :
        \/ \E size \in TwoSizes : CallAllocateOn(t, t, size)
        \/ AllocLock(t)
        \/ AllocPush(t)
        \/ AllocRegister(t)
        \/ AllocReturn(t)
        \/ \E ptr \in threads[t].held : CallDeallocate(t, ptr)
        \/ DeallocLock(t)
        \/ DeallocBody(t)

SpecTwo == Init /\ [][NextTwo]_vars

\* ------------------------------------------------------------ derived views

Range(seq) == {seq[i] : i \in 1..Len(seq)}

\* The data addresses along a chain.
DataOf(b, seq) == [i \in 1..Len(seq) |-> b[seq[i]].data]

StrictlyIncreasing(seq) == \A i \in 1..(Len(seq) - 1) : seq[i] < seq[i + 1]

\* The bytes [data, data + size) of block s lie in the backing allocation at c.
InChunk(s, c) ==
    c <= blocks[s].data /\ blocks[s].data + blocks[s].size <= c + backing[c]

\* The data address of block s lies in the backing allocation at c.
StartsInChunk(b, s, bk, c) == c <= b[s].data /\ b[s].data < c + bk[c]

\* Descriptors released by the last call (merges of a release).
Merges == lastOp.nblocks - Cardinality(DOMAIN blocks)

\* --------------------------------------------------------------- properties

\* C1 (round trip): every deallocate of a pointer the caller holds as a loan
\* returns true, and once every pointer returned by allocate has been passed
\* to deallocate exactly once, allocatedSize() = 0 and numUsedBlocks() = 0.
C1_RoundTrip ==
    /\ (lastOp.op = "deallocate" /\ lastOp.loaned) => lastOp.ok
    /\ loans = {} => (allocatedSize = 0 /\ numUsedBlocks = 0)

\* Three calls of allocate at least were made (two loans in one backing
\* allocation, whose release merged twice) and every loan has been returned.
C1_Witness ==
    /\ lastOp.op = "deallocate" /\ lastOp.loaned /\ lastOp.ok
    /\ loans = {}
    /\ Merges = 2
    /\ Cardinality(DOMAIN backing) = 2

\* C2 (unknown pointer): deallocate(ptr) with ptr not tracked in the address
\* index returns false and changes none of the chains, the address index,
\* allocBytes and totalBytes.
C2_UnknownPointerNoOp ==
    [][(lastOp'.op = "deallocate" /\ lastOp'.ptr \notin DOMAIN allocatedAddressToBlock)
          => (~lastOp'.ok /\ UNCHANGED poolVars)]_vars

\* deallocate has just refused a pointer that was already returned: it lies in
\* a free block, while other loans are still out.
C2_Witness ==
    /\ lastOp.op = "deallocate" /\ ~lastOp.ok
    /\ usedBlocks # NULL
    /\ \E s \in Range(FreeSeq) :
          blocks[s].data <= lastOp.ptr /\ lastOp.ptr < blocks[s].data + blocks[s].size

\* C3 (unsynchronized callers): every call of allocate returns the data
\* pointer of the block that this call put on the used chain and registered,
\* and no pointer is held by two callers at once.
C3_ReturnsOwnBlock ==
    /\ \A t \in Threads : threads[t].ret # NULL => threads[t].ret = threads[t].mine
    /\ \A t, u \in Threads : t # u => threads[t].held \cap threads[u].held = {}

\* C4 (accounting identity): allocBytes is the sum of the used-chain sizes,
\* totalBytes the sum of the backing allocations, and allocatedSize() plus the
\* free-chain sizes is managedSize().
C4_Accounting ==
    /\ allocBytes = SumSizes(blocks, UsedSeq)
    /\ totalBytes = SumBacking(backing, DOMAIN backing)
    /\ allocatedSize + SumSizes(blocks, FreeSeq) = managedSize

\* Two backing allocations, a loan and free space after a release.
C4_Witness ==
    /\ lastOp.op = "deallocate" /\ lastOp.ok
    /\ Cardinality(DOMAIN backing) = 2
    /\ allocBytes = 64
    /\ numFreeBlocks = 3

\* C5 (coalescing): a backing allocation none of whose blocks is on loan is
\* one free block: the head block, at the base, of the full size.
C5_Coalesced ==
    \A c \in DOMAIN backing :
        (\A u \in Range(UsedSeq) : ~StartsInChunk(blocks, u, backing, c))
        => \E h \in Range(FreeSeq) :
              /\ blocks[h].isHead /\ blocks[h].data = c /\ blocks[h].size = backing[c]
              /\ \A f \in Range(FreeSeq) : StartsInChunk(blocks, f, backing, c) => f = h

\* minBytes = 256, two loans carved from one backing allocation, both
\* released, the second release merging with both neighbours:
\* numFreeBlocks() = 1 and the block has 256 bytes.
C5_Witness ==
    /\ minBytes = 256
    /\ lastOp.op = "deallocate" /\ lastOp.ok /\ Merges = 2
    /\ loans = {}
    /\ numFreeBlocks = 1
    /\ blocks[freeBlocks].size = 256

\* C6 (head boundary): every free block lies within one backing allocation,
\* also when two backing allocations are address-adjacent.
C6_HeadBoundary ==
    \A f \in Range(FreeSeq) : \E c \in DOMAIN backing : InChunk(f, c)

\* After a release, two free blocks of two address-adjacent backing
\* allocations meet at the boundary and are two blocks.
C6_Witness ==
    /\ lastOp.op = "deallocate" /\ lastOp.ok
    /\ \E f, g \in Range(FreeSeq) :
          /\ blocks[f].data + blocks[f].size = blocks[g].data
          /\ blocks[g].isHead
          /\ blocks[g].data \in DOMAIN backing
          /\ \E c \in DOMAIN backing : c + backing[c] = blocks[g].data

\* The block a best-fit search for size picks among the free blocks of pool
\* state b, fr: smallest sufficient size, lowest address among equals.
IsBestFit(b, fr, s, size) ==
    /\ s \in fr
    /\ b[s].size >= size
    /\ \A t \in fr : b[t].size >= size =>
          (b[s].size < b[t].size \/ (b[s].size = b[t].size /\ b[s].data <= b[t].data))

\* C7 (best fit): when a free block of at least the requested size exists,
\* allocate calls no backing allocator, returns the best-fit block with its
\* size cut to the request, and leaves the rest of it as a free block.
C7_BestFit ==
    [][(lastOp'.op = "allocate"
          /\ \E t \in Range(FreeSeq) : blocks[t].size >= normalize(lastOp'.size))
       => LET size == normalize(lastOp'.size) IN
          /\ backing' = backing
          /\ totalBytes' = totalBytes
          /\ \E s \in Range(FreeSeq) :
                /\ IsBestFit(blocks, Range(FreeSeq), s, size)
                /\ lastOp'.ptr = blocks[s].data
                /\ usedBlocks' = s
                /\ blocks'[s].size = size
                /\ LET rest == {blocks'[f] .data : f \in Range(FreeSeq')}
                                  \ {blocks[f].data : f \in Range(FreeSeq) \ {s}}
                   IN  IF blocks[s].size = size
                       THEN rest = {} /\ numFreeBlocks' = numFreeBlocks - 1
                       ELSE /\ numFreeBlocks' = numFreeBlocks
                            /\ \E r \in Range(FreeSeq') :
                                  /\ blocks'[r].data = blocks[s].data + size
                                  /\ blocks'[r].size = blocks[s].size - size
                                  /\ rest = {blocks'[r].data}]_vars

\* allocate(128) has just passed over a larger free block at a lower address
\* and cut the smallest sufficient block, leaving its rest free.
C7_Witness ==
    /\ lastOp.op = "allocate" /\ ~lastOp.backed /\ lastOp.size = 128
    /\ Cardinality(DOMAIN blocks) = lastOp.nblocks + 1
    /\ \E r, g \in Range(FreeSeq) :
          /\ blocks[r].data = lastOp.ptr + 128
          /\ blocks[g].data < lastOp.ptr
          /\ blocks[g].size > blocks[r].size + 128

\* C8 (free-chain order): the free chain from freeBlocks via next has
\* strictly increasing data addresses.
C8_FreeSorted == StrictlyIncreasing(DataOf(blocks, FreeSeq))

\* A backing allocation at a lower address than the free blocks already there
\* has just been obtained and its rest is on the free chain.
C8_Witness ==
    /\ lastOp.op = "allocate" /\ lastOp.backed
    /\ numFreeBlocks >= 2
    /\ blocks[freeBlocks].data = lastOp.ptr + normalize(lastOp.size)

\* C9 as stated (used-chain order): the used chain from usedBlocks via next
\* has strictly increasing data addresses.
C9_UsedSorted == StrictlyIncreasing(DataOf(blocks, UsedSeq))

\* Seq without its elements equal to x.
Without(seq, x) == SelectSeq(seq, LAMBDA y : y # x)

\* C9 as amended: the used chain is kept most recently allocated first:
\* allocate puts its block at the head, deallocate takes one block out, and
\* both keep the order of the others; the data addresses are pairwise distinct.
C9_UsedMostRecentFirst ==
    [][/\ lastOp'.op = "allocate"
          => DataOf(blocks', UsedSeq') = <<lastOp'.ptr>> \o DataOf(blocks, UsedSeq)
       /\ lastOp'.op = "deallocate"
          => DataOf(blocks', UsedSeq') = Without(DataOf(blocks, UsedSeq), lastOp'.ptr)
       /\ Cardinality(Range(DataOf(blocks', UsedSeq'))) = Len(UsedSeq')]_vars

\* Two loans, the later one at the higher address and at the head.
C9_Witness ==
    /\ lastOp.op = "allocate"
    /\ numUsedBlocks = 2
    /\ blocks[usedBlocks].data = lastOp.ptr
    /\ blocks[usedBlocks].data > blocks[blocks[usedBlocks].next].data

\* C10 (address index): the keys of allocatedAddressToBlock are the data
\* pointers of the used-chain blocks, each key maps to the used block with
\* that data, and no two used blocks share a data pointer.
C10_AddressIndex ==
    /\ DOMAIN allocatedAddressToBlock = Range(DataOf(blocks, UsedSeq))
    /\ \A k \in DOMAIN allocatedAddressToBlock :
          /\ allocatedAddressToBlock[k] \in Range(UsedSeq)
          /\ blocks[allocatedAddressToBlock[k]].data = k
    /\ Cardinality(Range(DataOf(blocks, UsedSeq))) = Len(UsedSeq)

\* A loan has been released and its key erased while a loan at a higher
\* address stays registered.
C10_Witness ==
    /\ lastOp.op = "deallocate" /\ lastOp.ok
    /\ Cardinality(DOMAIN allocatedAddressToBlock) = 1
    /\ lastOp.ptr \notin DOMAIN allocatedAddressToBlock
    /\ usedBlocks # NULL
    /\ blocks[usedBlocks].data > lastOp.ptr

\* ---------------------------------------------------------------------- C11
\* What allocate(1) does from the current state, for some answer of MA.
AsAllocateOne ==
    LET miss == findUsableBlock(Pool, 1).best = NULL
    IN  \E data \in (IF miss THEN MAallocate(backing, Max(1, minBytes)) ELSE {NULL}) :
           LET r == allocate(Pool, 1, data)
           IN  Pool' = r.st /\ lastOp'.ptr = r.ret

\* C11: allocate(0) has exactly the effect of allocate(1): it returns a tracked
\* pointer to a used block of size 1 and allocatedSize grows by 1; no block of
\* size 0 is ever on either chain.
C11_ZeroAsOne ==
    [][ /\ (lastOp'.op = "allocate" /\ lastOp'.size = 0) =>
              /\ AsAllocateOne
              /\ usedBlocks' # NULL
              /\ blocks'[usedBlocks'].data = lastOp'.ptr
              /\ blocks'[usedBlocks'].size = 1
              /\ lastOp'.ptr \in DOMAIN allocatedAddressToBlock'
              /\ allocatedAddressToBlock'[lastOp'.ptr] = usedBlocks'
              /\ allocatedSize' = allocatedSize + 1
        /\ \A s \in Range(FreeSeq') \cup Range(UsedSeq') : blocks'[s].size # 0 ]_vars

\* allocate(0) was served by a free block of exactly 1 byte, which was neither
\* split nor backed by a new chunk.
C11_Witness ==
    /\ lastOp.op = "allocate" /\ lastOp.size = 0 /\ ~lastOp.backed
    /\ lastOp.nblocks = Cardinality(DOMAIN blocks)
    /\ blocks[usedBlocks].size = 1

\* ---------------------------------------------------------------------- C12
\* C12: when allocate(size) returns p, every byte of [p, p + size) is zero, also
\* when the range was loaned before, written with non-zero bytes, freed and
\* issued again after merging or splitting.
C12_ZeroFill ==
    lastOp.op = "allocate" =>
        \A a \in lastOp.ptr..(lastOp.ptr + normalize(lastOp.size) - 1) : a \notin mem

\* allocate has issued a range that held non-zero bytes of an earlier loan, cut
\* from a larger free block whose remainder still holds them.
C12_Witness ==
    /\ lastOp.op = "allocate" /\ lastOp.dirty /\ ~lastOp.backed
    /\ lastOp.ptr + normalize(lastOp.size) \in mem
    /\ Cardinality(DOMAIN blocks) = lastOp.nblocks + 1

\* ---------------------------------------------------------------------- C13
\* C13: every stat query (allocatedSize, managedSize, totalSize, numFreeBlocks,
\* numUsedBlocks) takes the lock and returns a value computed with no other
\* thread inside a critical section, so never a half-updated one.
C13_StatsUnderLock ==
    \A t \in Threads :
        threads[t].pc = "stat_return" =>
            /\ ~threads[t].busy
            /\ threads[t].seen = threads[t].sum

\* ---------------------------------------------------------------------- C14
\* Thread t is inside a critical section; thread t waits at getMutex().lock().
InCritical(t) == threads[t].pc \in {"alloc_push", "alloc_register", "dealloc_body"}

AtLock(t) == threads[t].pc \in {"alloc_lock", "dealloc_lock"}

\* C14: pool instances are locked independently: a thread inside the critical
\* section of one instance never keeps a thread from entering the critical
\* section of another instance.
C14_IndependentLocks ==
    \A t, u \in Threads :
        (InCritical(t) /\ AtLock(u) /\ threads[t].inst # threads[u].inst)
            => ENABLED (AllocLock(u) \/ DeallocLock(u))

\* ---------------------------------------------------------------------- C15
\* C15: from any state reached by allocate and deallocate, also with loans
\* outstanding, freeAllBlocks ends with both chains empty and totalBytes = 0,
\* hands every backing allocation to MA::deallocate exactly once, by its base
\* pointer, and its assertion that each block left on the free chain is an
\* isHead block never fails.
C15_Teardown ==
    [][lastOp'.op = "destroy" =>
          /\ lastOp'.ok
          /\ usedBlocks' = NULL /\ freeBlocks' = NULL
          /\ totalBytes' = 0
          /\ Len(maFreed') = Cardinality(DOMAIN backing)
          /\ Range(maFreed') = DOMAIN backing
          /\ backing' = <<>>]_vars

\* A pool with two backing allocations was destroyed while the caller still
\* held two loans.
C15_Witness ==
    /\ lastOp.op = "destroy" /\ lastOp.loaned
    /\ Cardinality(loans) = 2
    /\ Len(maFreed) = 2
    /\ lastOp.nblocks >= 3

\* ---------------------------------------------------------------------- C16
\* The descriptors on either chain whose data lies in the backing allocation
\* at c.
InAllocation(c) ==
    {s \in Range(FreeSeq) \cup Range(UsedSeq) : StartsInChunk(blocks, s, backing, c)}

\* The bytes of block s.
Bytes(s) == blocks[s].data..(blocks[s].data + blocks[s].size - 1)

\* C16: after every completed allocate or deallocate, the descriptors (free
\* and used) whose data lies in a backing allocation tile it exactly: exactly
\* one is isHead and it starts at the base, they are contiguous without gap or
\* overlap, and their sizes sum to the bytes requested for that allocation.
C16_Tiling ==
    \A c \in DOMAIN backing :
        LET D == InAllocation(c) IN
        /\ Cardinality({s \in D : blocks[s].isHead}) = 1
        /\ \A s \in D : blocks[s].isHead <=> blocks[s].data = c
        /\ \A s \in D : blocks[s].size > 0 /\ InChunk(s, c)
        /\ \A s \in D :
              \/ blocks[s].data + blocks[s].size = c + backing[c]
              \/ \E t \in D : blocks[t].data = blocks[s].data + blocks[s].size
        /\ \A s, t \in D : s # t => Bytes(s) \cap Bytes(t) = {}
        /\ UNION {Bytes(s) : s \in D} = c..(c + backing[c] - 1)

\* A backing allocation of 320 bytes is one block while another of 256 bytes
\* is tiled by a used block, a free block and a used block.
C16_Witness ==
    /\ \E c \in DOMAIN backing : backing[c] = 320 /\ Cardinality(InAllocation(c)) = 1
    /\ \E c \in DOMAIN backing :
          /\ backing[c] = 256
          /\ Cardinality(InAllocation(c)) = 3
          /\ Cardinality(InAllocation(c) \cap Range(UsedSeq)) = 2
          /\ \E s \in Range(FreeSeq) : c < blocks[s].data /\ blocks[s].data + blocks[s].size < c + 256

\* ---------------------------------------------------------------------- C17
\* Some block of the free chain has at least n bytes.
FreeChainFits(n) == \E t \in Range(FreeSeq) : blocks[t].size >= n

\* One call of MA::allocate, for n bytes, and no other change of the backing
\* allocations.
OneBackingRequest(n) ==
    \E c \in DOMAIN backing' \ DOMAIN backing :
        /\ DOMAIN backing' = DOMAIN backing \cup {c}
        /\ backing'[c] = n
        /\ \A d \in DOMAIN backing : backing'[d] = backing[d]

\* C17: allocate(size) calls the Backing Allocator only when no block of the
\* free chain has the normalized size, then exactly once and for exactly
\* max(size, minBytes) bytes; managedSize grows by exactly that on such a call
\* and is unchanged by every other allocate and by every deallocate.
C17_BackingRequests ==
    [][/\ lastOp'.op = "allocate" =>
             LET n == normalize(lastOp'.size) IN
             IF FreeChainFits(n)
             THEN backing' = backing /\ managedSize' = managedSize
             ELSE /\ OneBackingRequest(Max(n, minBytes))
                  /\ managedSize' = managedSize + Max(n, minBytes)
       /\ lastOp'.op = "deallocate" =>
             backing' = backing /\ managedSize' = managedSize]_vars

\* allocate(320) asked MA for 320 bytes although the free chain held a block,
\* too small for it; an earlier request for fewer than minBytes bytes had
\* asked for 256.
C17_Witness ==
    /\ lastOp.op = "allocate" /\ lastOp.backed /\ lastOp.size = 320
    /\ \E c \in DOMAIN backing : backing[c] = 256
    /\ backing[lastOp.ptr] = 320
    /\ FreeChainFits(64) /\ ~FreeChainFits(320)
    /\ managedSize = 576

\* ---------------------------------------------------------------------- C19
\* The prev and next links of the chain seq that starts at head agree.
Linked(b, head, seq) ==
    /\ head # NULL => b[head].prev = NULL
    /\ \A i \in 1..(Len(seq) - 1) :
          b[seq[i]].next = seq[i + 1] /\ b[seq[i + 1]].prev = seq[i]

\* The predecessor of descriptor s on the chain seq, NULL for its head.
PredOn(seq, s) ==
    LET i == CHOOSE j \in 1..Len(seq) : seq[j] = s
    IN  IF i = 1 THEN NULL ELSE seq[i - 1]

\* C19: after every completed allocate or deallocate, in both chains the head
\* has prev = NULL and b.next.prev = b for every block b with a next; so the
\* curr->prev that deallocate passes to releaseBlock is the predecessor of curr
\* on the used chain (NULL exactly for the head), and the unlinking removes
\* exactly that block from the used chain.
C19_LinkConsistency ==
    [][/\ Linked(blocks', freeBlocks', FreeSeq')
       /\ Linked(blocks', usedBlocks', UsedSeq')
       /\ (lastOp'.op = "deallocate" /\ lastOp'.ok) =>
             LET curr == allocatedAddressToBlock[lastOp'.ptr] IN
             /\ curr \in Range(UsedSeq)
             /\ blocks[curr].prev = PredOn(UsedSeq, curr)
             /\ (blocks[curr].prev = NULL) <=> (curr = usedBlocks)
             /\ UsedSeq' = Without(UsedSeq, curr)]_vars

\* deallocate has taken the second of two used blocks out of the used chain,
\* and the free chain has two blocks.
C19_Witness ==
    /\ lastOp.op = "deallocate" /\ lastOp.ok
    /\ numUsedBlocks = 1 /\ numFreeBlocks = 2
    /\ blocks[usedBlocks].data > lastOp.ptr
    /\ blocks[freeBlocks].next # NULL
    /\ blocks[blocks[freeBlocks].next].prev = freeBlocks

\* ---------------------------------------------------------------------- C20
\* Each element of seq occurs in it once.
NoRepeat(seq) == \A i, j \in 1..Len(seq) : seq[i] = seq[j] => i = j

\* Every descriptor is on exactly one chain, once, and the bytes of distinct
\* blocks are disjoint.
Disjoint(b, fr, us) ==
    /\ NoRepeat(fr) /\ NoRepeat(us)
    /\ Range(fr) \cap Range(us) = {}
    /\ Range(fr) \cup Range(us) = DOMAIN b
    /\ \A s, t \in DOMAIN b :
          s # t => (b[s].data + b[s].size <= b[t].data \/ b[t].data + b[t].size <= b[s].data)

\* C20: after any sequence of allocate and deallocate, every descriptor is on
\* exactly one of the free chain and the used chain, each used block has the
\* normalized size asked of the allocate that issued it, and the byte ranges
\* [data, data + size) of distinct blocks, used or free, are disjoint.
C20_LoanDisjointness ==
    [][\E fr \in {FreeSeq'} : \E us \in {UsedSeq'} : \E was \in {Range(UsedSeq)} :
       /\ Disjoint(blocks', fr, us)
       /\ lastOp'.op = "allocate" =>
             /\ blocks'[usedBlocks'].data = lastOp'.ptr
             /\ blocks'[usedBlocks'].size = normalize(lastOp'.size)
             /\ usedBlocks' \notin was
       /\ \A s \in was \cap Range(us) :
             blocks'[s].data = blocks[s].data /\ blocks'[s].size = blocks[s].size]_vars

\* Two loans of 64 and 128 bytes lie side by side in one backing allocation,
\* followed by the free remainder.
C20_Witness ==
    /\ numUsedBlocks = 2 /\ numFreeBlocks = 1
    /\ \E s, t \in Range(UsedSeq) :
          /\ blocks[s].size = 64 /\ blocks[t].size = 128
          /\ blocks[s].data + 64 = blocks[t].data
          /\ blocks[t].data + 128 = blocks[freeBlocks].data
          /\ loans = {blocks[s].data, blocks[t].data}

\* ---------------------------------------------------------------------- C18
\* C18: under fair scheduling every call to allocate, deallocate, totalSize or
\* numFreeBlocks returns: each path that takes the lock releases it before it
\* returns, deallocate's unknown-pointer path too, and none takes it twice.
C18_CallsReturn ==
    \A t \in Threads : (threads[t].pc # "idle") ~> (threads[t].pc = "idle")

\* A thread waits for the mutex while another is inside deallocate with a
\* pointer that the address index does not hold.
C18_Witness ==
    \E t, u \in Threads :
        /\ threads[t].pc \in {"alloc_lock", "dealloc_lock", "stat_lock"}
        /\ threads[u].pc = "dealloc_body" /\ mutex = u
        /\ threads[u].ptr \notin DOMAIN allocatedAddressToBlock

====
